---- MODULE Spec2Model ----
(***************************************************************************)
(* Model of package log (src/log.go): the Logger facade over the standard  *)
(* line logger, the Options escalation policy (Critical / Severe) and the  *)
(* closeableFile writer guarded by a sync.RWMutex.                          *)
(*                                                                         *)
(* Goroutines call the exported operations; every operation is split at    *)
(* the points where it takes or releases a lock or touches the file, so    *)
(* that calls of different goroutines interleave as the Go scheduler       *)
(* allows.  A panic is recorded in the call of the goroutine that raised   *)
(* it and unwinds through the deferred unlocks; the caller recovers it     *)
(* (as the tests do), so other calls go on.                                *)
(*                                                                         *)
(* The Logger's own methods are called by the goroutine that constructed   *)
(* it; the other goroutines use its sink, the closeableFile, through Write *)
(* and Close.  log.Logger serializes the Writes of the Logger methods      *)
(* under its mutex, so the concurrency of the package is that of the       *)
(* closeableFile.                                                          *)
(***************************************************************************)
EXTENDS Integers, Sequences, FiniteSets, TLC

(* ------------------------------ bounds -------------------------------- *)
\* number of goroutines using the logger
NumThreads == 2
\* number of calls made on the logger after its construction
MaxCalls == 2
\* number of I/O failures the environment injects
MaxFails == 1
\* largest ReleaseType value tried (values above Testing are unknown types)
MaxReleaseType == 4

(* ------------------------ ReleaseType constants ----------------------- *)
ReleaseTypeError == 0
Release == 1
Dev == 2
Testing == 3

Threads == 1..NumThreads

\* the goroutine that constructs the logger
Main == CHOOSE t \in Threads : \A u \in Threads : t <= u

(* ------------------------- strings (package strings) ------------------ *)
\* strings.HasSuffix
HasSuffix(s, suffix) ==
    /\ Len(s) >= Len(suffix)
    /\ SubSeq(s, Len(s) - Len(suffix) + 1, Len(s)) = suffix

\* strings.Contains
Contains(s, substr) ==
    \E i \in 1..(Len(s) - Len(substr) + 1) : SubSeq(s, i, i + Len(substr) - 1) = substr

\* strings.Split(s, "\n")
RECURSIVE Split(_)
Split(s) ==
    IF ~Contains(s, "\n")
    THEN <<s>>
    ELSE LET i == CHOOSE k \in 1..Len(s) :
                      /\ SubSeq(s, k, k) = "\n"
                      /\ \A j \in 1..(k - 1) : SubSeq(s, j, j) # "\n"
         IN  <<SubSeq(s, 1, i - 1)>> \o Split(SubSeq(s, i + 1, Len(s)))

(* ------------------------------ package fmt --------------------------- *)
\* fmt.Sprint on string operands: no space is added between strings
RECURSIVE Sprint(_)
Sprint(v) ==
    IF v = <<>> THEN "" ELSE Head(v) \o Sprint(Tail(v))

\* fmt.Sprintln: operands separated by spaces, newline appended
RECURSIVE Sprintln(_)
Sprintln(v) ==
    IF v = <<>> THEN "\n"
    ELSE IF Len(v) = 1 THEN Head(v) \o "\n"
    ELSE Head(v) \o " " \o Sprintln(Tail(v))

\* fmt.Sprintf: the format is given as its pieces, a verb being a piece of
\* its own; each verb consumes the next operand
RECURSIVE Sprintf(_, _)
Sprintf(format, v) ==
    IF format = <<>>
    THEN IF v = <<>> THEN "" ELSE "%!(EXTRA string=" \o Head(v) \o ")"
    ELSE IF Head(format) \in {"%v", "%s"}
         THEN IF v = <<>>
              THEN "%!" \o SubSeq(Head(format), 2, 2) \o "(MISSING)" \o Sprintf(Tail(format), v)
              ELSE Head(v) \o Sprintf(Tail(format), Tail(v))
         ELSE Head(format) \o Sprintf(Tail(format), v)

(* ------------------------------ ReleaseType --------------------------- *)
\* String with the uninitialized type rendered instead of refused
StringOfUninitialized(rt) ==
    IF rt = ReleaseTypeError THEN [panic |-> FALSE, s |-> "error"]
    ELSE IF rt = Release THEN [panic |-> FALSE, s |-> "release"]
    ELSE IF rt = Dev THEN [panic |-> FALSE, s |-> "dev"]
    ELSE IF rt = Testing THEN [panic |-> FALSE, s |-> "testing"]
    ELSE [panic |-> TRUE, s |-> "unknown release type"]

\* ReleaseType.String: the string, or the panic it raises
String(rt) ==
    IF rt = ReleaseTypeError THEN [panic |-> TRUE, s |-> "uninitialized release type"]
    ELSE IF rt = Release THEN [panic |-> FALSE, s |-> "release"]
    ELSE IF rt = Dev THEN [panic |-> FALSE, s |-> "dev"]
    ELSE IF rt = Testing THEN [panic |-> FALSE, s |-> "testing"]
    ELSE [panic |-> TRUE, s |-> "unknown release type"]

\* how fmt renders a ReleaseType operand under %s: it calls String and
\* recovers a panic of that method into the text
FormatStringer(rt) ==
    IF String(rt).panic
    THEN "%!s(PANIC=String method: " \o String(rt).s \o ")"
    ELSE String(rt).s

\* Options.BuildInfoString
BuildInfoString(o) ==
    Sprintf(<<"(", "%v", " v", "%v", ", Release: ", "%s", ")">>,
            <<o.BinaryName, o.Version, FormatStringer(o.Release)>>)

\* Critical with the panic put under the release test instead of the debug test
CriticalPanicsUnlessTesting(o, v) ==
    LET s == Sprintf(<<"Critical error: ", "%v", " ", "%v",
                       "Please submit a bug report here: ", "%v", "\n">>,
                     <<BuildInfoString(o), Sprintln(v), o.BugReportURL>>)
    IN  [stack  |-> o.Release # Testing,
         stderr |-> IF o.Release # Testing THEN s ELSE "",
         panic  |-> IF o.Release # Testing THEN s ELSE ""]

\* Options.Critical: what it writes to standard error and whether it panics
Critical(o, v) ==
    LET s == Sprintf(<<"Critical error: ", "%v", " ", "%v",
                       "Please submit a bug report here: ", "%v", "\n">>,
                     <<BuildInfoString(o), Sprintln(v), o.BugReportURL>>)
    IN  [stack  |-> o.Release # Testing,
         stderr |-> IF o.Release # Testing THEN s ELSE "",
         panic  |-> IF o.Debug THEN s ELSE ""]

\* Severe with the diagnostics put under the debug test instead of the release test
SevereQuietUnlessDebug(o, v) ==
    LET s == Sprintf(<<"Severe error: ", "%v", " ", "%v">>,
                     <<BuildInfoString(o), Sprintln(v)>>)
    IN  [stack  |-> o.Debug,
         stderr |-> IF o.Debug THEN s ELSE "",
         panic  |-> IF o.Debug THEN s ELSE ""]

\* Severe panicking whether or not debug is set
SevereAlwaysPanics(o, v) ==
    LET s == Sprintf(<<"Severe error: ", "%v", " ", "%v">>,
                     <<BuildInfoString(o), Sprintln(v)>>)
    IN  [stack  |-> o.Release # Testing,
         stderr |-> IF o.Release # Testing THEN s ELSE "",
         panic  |-> s]

\* the escalation inside Logger.Severe
SevereEscalation(o, v) ==
    LET s == Sprintf(<<"Severe error: ", "%v", " ", "%v">>,
                     <<BuildInfoString(o), Sprintln(v)>>)
    IN  [stack  |-> o.Release # Testing,
         stderr |-> IF o.Release # Testing THEN s ELSE "",
         panic  |-> IF o.Debug THEN s ELSE ""]

(* ------------------------------ package log --------------------------- *)
\* the header log.Logger puts before a line under the flags NewLogger sets
\* (date, time, microseconds, UTC, short file); its text is the clock's
Header == "<date> <time> <file:line>: "

\* Output without the newline it adds to a line that lacks one
OutputBytesAsGiven(s) ==
    Header \o s

\* the bytes log.Logger.Output hands to the sink in one Write
OutputBytes(s) ==
    Header \o s \o (IF HasSuffix(s, "\n") THEN "" ELSE "\n")

(* ------------------------------ inputs -------------------------------- *)
Options ==
    [BinaryName : {"test"}, BugReportURL : {"https://bugs"}, Debug : BOOLEAN,
     Release : 0..MaxReleaseType, Version : {"0.0.1"}]

\* operand lists of the logging calls
ArgLists == {<<"test", "message">>}
CriticalArgLists == {<<"a critical message">>}
Formats == {<<"%v", " - ", "%v">>}

(* ------------------------------ state --------------------------------- *)
VARIABLES
    options,    \* the Options given to the constructor
    sinkKind,   \* "file": NewFileLogger's closeableFile; "writer": a plain io.Writer
    logger,     \* "none", "ok" (constructed), "err" (error returned), "panic"
    pc,         \* per goroutine: where it is in its call
    call,       \* per goroutine: its current (or last) call
    closed,     \* closeableFile.closed
    mu,         \* closeableFile.mu
    lmu,        \* the mutex of log.Logger held during Output; 0 when free
    file,       \* the os.File: "none", "open", "closed"
    sinkData,   \* the writes that landed in the sink, in order
    calls,      \* number of calls started on the constructed logger
    fails       \* I/O failures injected

vars == <<options, sinkKind, logger, pc, call, closed, mu, lmu, file, sinkData, calls, fails>>

NoCall ==
    [op     |-> "none",  \* the operation called
     prev   |-> "none",  \* the operation this goroutine called before it
     s      |-> "",      \* the text it hands to Output (the bytes, for a direct Write)
     v      |-> <<>>,    \* its operands
     events |-> <<>>,    \* what it did so far: sanity checks failed, file operations
     ioerr  |-> {},      \* the I/O operations on an open file or sink that failed in it
     stack  |-> FALSE,   \* debug.PrintStack ran
     stderr |-> "",      \* what it wrote to os.Stderr
     panic  |-> "",      \* the value it panicked with; "" if it did not
     outerr |-> "",      \* the error of its sink Write; "" is nil
     err    |-> "",      \* the error it returned; "" is nil
     done   |-> FALSE]   \* it returned or panicked

NewCall(t, name, text, args) ==
    [NoCall EXCEPT !.op = name, !.prev = call[t].op, !.s = text, !.v = args]

Init ==
    /\ options \in Options
    /\ sinkKind \in {"file", "writer"}
    /\ logger = "none"
    /\ pc = [t \in Threads |-> "idle"]
    /\ call = [t \in Threads |-> NoCall]
    /\ closed = FALSE
    /\ mu = [readers |-> {}, pending |-> 0, writer |-> 0]
    /\ lmu = 0
    /\ file = "none"
    /\ sinkData = <<>>
    /\ calls = 0
    /\ fails = 0

\* the outcomes of one I/O operation: TRUE is success
IOOutcomes == IF fails < MaxFails THEN BOOLEAN ELSE {TRUE}

CountFail(ok) == fails' = IF ok THEN fails ELSE fails + 1

\* the call of goroutine t returns (or its panic reaches its caller)
Return(t, c) ==
    /\ pc' = [pc EXCEPT ![t] = "idle"]
    /\ call' = [call EXCEPT ![t] = [c EXCEPT !.done = TRUE]]

Goto(t, label, c) ==
    /\ pc' = [pc EXCEPT ![t] = label]
    /\ call' = [call EXCEPT ![t] = c]

\* a goroutine may start a call on the constructed logger; goroutines are
\* numbered in the order of their first call
CanCall(t) ==
    /\ logger = "ok"
    /\ pc[t] = "idle"
    /\ calls < MaxCalls
    /\ \A u \in Threads : Main < u /\ u < t => call[u].op # "none"

\* entry of a call that writes the line s through Logger.Output; the Logger
\* is driven by the goroutine that made it, the other goroutines share its
\* sink
StartOutput(t, name, s, args) ==
    /\ CanCall(t) /\ t = Main
    /\ calls' = calls + 1
    /\ Goto(t, "out_lock", NewCall(t, name, s, args))
    /\ UNCHANGED <<options, sinkKind, logger, closed, mu, lmu, file, sinkData, fails>>

(* ---------------------------- construction ---------------------------- *)
\* NewFileLogger: os.OpenFile, then the closeableFile is handed to NewLogger
NewFileLogger(t) ==
    /\ t = Main /\ logger = "none" /\ sinkKind = "file" /\ pc[t] = "idle"
    /\ \E ok \in IOOutcomes :
        /\ CountFail(ok)
        /\ IF ok
           THEN /\ file' = "open"
                /\ logger' = logger
                /\ Goto(t, "new_logger", NewCall(t, "NewFileLogger", "", <<>>))
           ELSE /\ file' = file
                /\ logger' = "err"
                /\ Return(t, [NewCall(t, "NewFileLogger", "", <<>>) EXCEPT
                                 !.ioerr = {"os.OpenFile"}, !.err = "open error"])
    /\ UNCHANGED <<options, sinkKind, closed, mu, lmu, sinkData, calls>>

\* NewLogger with Dev missing from the accepted release types
NewLoggerWithoutDev(t) ==
    /\ t = Main /\ logger = "none"
    /\ \/ pc[t] = "new_logger"
       \/ pc[t] = "idle" /\ sinkKind = "writer"
    /\ LET c == IF pc[t] = "idle" THEN NewCall(t, "NewLogger", "", <<>>) ELSE call[t]
           message == Sprintf(<<"STARTUP: Logging has started. ", "%v", " Version ", "%v">>,
                              <<options.BinaryName, options.Version>>)
       IN  IF options.Release \in {Release, Testing}
           THEN /\ logger' = logger
                /\ Goto(t, "out_lock", [c EXCEPT !.s = message])
           ELSE IF String(options.Release).panic
           THEN /\ logger' = "panic"
                /\ Return(t, [c EXCEPT !.panic = String(options.Release).s])
           ELSE /\ logger' = "err"
                /\ Return(t, [c EXCEPT !.err = "invalid ReleaseType provided: "
                                                  \o String(options.Release).s])
    /\ UNCHANGED <<options, sinkKind, closed, mu, lmu, file, sinkData, calls, fails>>

\* NewLogger up to its call of Output: the check of the release type
NewLogger(t) ==
    /\ t = Main /\ logger = "none"
    /\ \/ pc[t] = "new_logger"
       \/ pc[t] = "idle" /\ sinkKind = "writer"
    /\ LET c == IF pc[t] = "idle" THEN NewCall(t, "NewLogger", "", <<>>) ELSE call[t]
           message == Sprintf(<<"STARTUP: Logging has started. ", "%v", " Version ", "%v">>,
                              <<options.BinaryName, options.Version>>)
       IN  IF options.Release \in {Release, Dev, Testing}
           THEN /\ logger' = logger
                /\ Goto(t, "out_lock", [c EXCEPT !.s = message])
           ELSE IF String(options.Release).panic
           THEN /\ logger' = "panic"
                /\ Return(t, [c EXCEPT !.panic = String(options.Release).s])
           ELSE /\ logger' = "err"
                /\ Return(t, [c EXCEPT !.err = "invalid ReleaseType provided: "
                                                  \o String(options.Release).s])
    /\ UNCHANGED <<options, sinkKind, closed, mu, lmu, file, sinkData, calls, fails>>

\* NewLogger returning the Logger whatever the STARTUP write returned
NewLoggerReturnIgnoresError(t) ==
    /\ pc[t] = "new_ret"
    /\ logger' = "ok"
    /\ Return(t, call[t])
    /\ UNCHANGED <<options, sinkKind, closed, mu, lmu, file, sinkData, calls, fails>>

\* NewLogger after Output: the error of the STARTUP line, or the Logger
NewLoggerReturn(t) ==
    /\ pc[t] = "new_ret"
    /\ logger' = IF call[t].outerr # "" THEN "err" ELSE "ok"
    /\ Return(t, [call[t] EXCEPT !.err = call[t].outerr])
    /\ UNCHANGED <<options, sinkKind, closed, mu, lmu, file, sinkData, calls, fails>>

(* ------------------------- log.Logger.Output -------------------------- *)
\* Output takes the logger's mutex and calls the sink's Write
OutputLock(t) ==
    /\ pc[t] = "out_lock"
    /\ lmu = 0
    /\ lmu' = t
    /\ Goto(t, IF sinkKind = "file" THEN "w_lock" ELSE "w_plain", call[t])
    /\ UNCHANGED <<options, sinkKind, logger, closed, mu, file, sinkData, calls, fails>>

\* the Write of a sink that is a plain io.Writer
PlainWrite(t) ==
    /\ pc[t] = "w_plain"
    /\ \E ok \in IOOutcomes :
        /\ CountFail(ok)
        /\ sinkData' = IF ok THEN Append(sinkData, OutputBytes(call[t].s)) ELSE sinkData
        /\ Goto(t, "out_unlock",
                [call[t] EXCEPT !.events = Append(@, "Write"),
                                !.outerr = IF ok THEN "" ELSE "write error",
                                !.ioerr = IF ok THEN @ ELSE @ \cup {"Write"}])
    /\ UNCHANGED <<options, sinkKind, logger, closed, mu, lmu, file, calls>>

\* Output releases the mutex (deferred) and the caller goes on
OutputUnlock(t) ==
    /\ pc[t] = "out_unlock"
    /\ lmu' = 0
    /\ LET c == call[t] IN
        IF c.panic # "" THEN
            IF c.op \in {"NewFileLogger", "NewLogger"}
            THEN /\ logger' = "panic" /\ Return(t, c)
            ELSE /\ logger' = logger /\ Return(t, c)
        ELSE /\ logger' = logger
             /\ CASE c.op \in {"NewFileLogger", "NewLogger"} -> Goto(t, "new_ret", c)
                  [] c.op = "Critical" -> Goto(t, "critical", c)
                  [] c.op = "Severe" -> Goto(t, "severe", c)
                  [] c.op = "Close" -> Goto(t, "close_sink", c)
                  [] OTHER -> Return(t, c)
    /\ UNCHANGED <<options, sinkKind, closed, mu, file, sinkData, calls, fails>>

(* --------------------------- closeableFile.Write ----------------------- *)
\* a direct Write on the closeableFile (the logger's Writer)
Write(t) ==
    /\ CanCall(t) /\ sinkKind = "file"
    /\ calls' = calls + 1
    /\ Goto(t, "w_lock", NewCall(t, "Write", "raw bytes\n", <<>>))
    /\ UNCHANGED <<options, sinkKind, logger, closed, mu, lmu, file, sinkData, fails>>

\* the bytes of the Write in progress
WriteBytes(c) == IF c.op = "Write" THEN c.s ELSE OutputBytes(c.s)

\* Write entering without waiting for the lock
RLockWithoutWaiting(t) ==
    /\ pc[t] = "w_lock"
    /\ mu' = [mu EXCEPT !.readers = @ \cup {t}]
    /\ Goto(t, "w_check", call[t])
    /\ UNCHANGED <<options, sinkKind, logger, closed, lmu, file, sinkData, calls, fails>>

\* cf.mu.RLock: blocked while a Lock is held or waiting
RLock(t) ==
    /\ pc[t] = "w_lock"
    /\ mu.writer = 0 /\ mu.pending = 0
    /\ mu' = [mu EXCEPT !.readers = @ \cup {t}]
    /\ Goto(t, "w_check", call[t])
    /\ UNCHANGED <<options, sinkKind, logger, closed, lmu, file, sinkData, calls, fails>>

\* the sanity check of Write returning after Critical instead of going on
WriteCheckReturns(t) ==
    /\ pc[t] = "w_check"
    /\ LET e == Critical(options, <<"cannot write to the file after it has been closed">>)
           c == call[t]
       IN  IF closed
           THEN Goto(t, "w_unlock",
                     [c EXCEPT !.events = Append(@, "Write after Close"), !.stack = @ \/ e.stack,
                               !.stderr = @ \o e.stderr, !.panic = e.panic,
                               !.outerr = "file already closed"])
           ELSE Goto(t, "w_file", c)
    /\ UNCHANGED <<options, sinkKind, logger, closed, mu, lmu, file, sinkData, calls, fails>>

\* the sanity check of Write
WriteCheck(t) ==
    /\ pc[t] = "w_check"
    /\ LET e == Critical(options, <<"cannot write to the file after it has been closed">>)
           c == call[t]
       IN  IF closed
           THEN Goto(t, IF e.panic # "" THEN "w_unlock" ELSE "w_file",
                     [c EXCEPT !.events = Append(@, "Write after Close"), !.stack = @ \/ e.stack,
                               !.stderr = @ \o e.stderr, !.panic = e.panic])
           ELSE Goto(t, "w_file", c)
    /\ UNCHANGED <<options, sinkKind, logger, closed, mu, lmu, file, sinkData, calls, fails>>

\* cf.File.Write
FileWrite(t) ==
    /\ pc[t] = "w_file"
    /\ IF file # "open"
       THEN /\ Goto(t, "w_unlock", [call[t] EXCEPT !.events = Append(@, "File.Write"),
                                                    !.outerr = "file already closed"])
            /\ UNCHANGED <<sinkData, fails>>
       ELSE \E ok \in IOOutcomes :
            /\ CountFail(ok)
            /\ sinkData' = IF ok THEN Append(sinkData, WriteBytes(call[t])) ELSE sinkData
            /\ Goto(t, "w_unlock",
                    [call[t] EXCEPT !.events = Append(@, "File.Write"),
                                    !.outerr = IF ok THEN "" ELSE "write error",
                                    !.ioerr = IF ok THEN @ ELSE @ \cup {"File.Write"}])
    /\ UNCHANGED <<options, sinkKind, logger, closed, mu, lmu, file, calls>>

\* the deferred cf.mu.RUnlock, then Write returns (or its panic goes up)
RUnlock(t) ==
    /\ pc[t] = "w_unlock"
    /\ mu' = [mu EXCEPT !.readers = @ \ {t}]
    /\ IF call[t].op = "Write"
       THEN Return(t, [call[t] EXCEPT !.err = call[t].outerr])
       ELSE Goto(t, "out_unlock", call[t])
    /\ UNCHANGED <<options, sinkKind, logger, closed, lmu, file, sinkData, calls, fails>>

(* --------------------------- closeableFile.Close ----------------------- *)
\* a direct Close on the closeableFile
FileCloserClose(t) ==
    /\ CanCall(t) /\ sinkKind = "file"
    /\ calls' = calls + 1
    /\ Goto(t, "c_lock", NewCall(t, "cf.Close", "", <<>>))
    /\ UNCHANGED <<options, sinkKind, logger, closed, mu, lmu, file, sinkData, fails>>

\* cf.mu.Lock, first half: the Lock excludes other Locks and turns new
\* RLocks away
Lock(t) ==
    /\ pc[t] = "c_lock"
    /\ mu.writer = 0 /\ mu.pending = 0
    /\ mu' = [mu EXCEPT !.pending = t]
    /\ Goto(t, "c_wait", call[t])
    /\ UNCHANGED <<options, sinkKind, logger, closed, lmu, file, sinkData, calls, fails>>

\* Lock granted while Writes are still inside
LockAcquireWithoutWaiting(t) ==
    /\ pc[t] = "c_wait"
    /\ mu' = [mu EXCEPT !.pending = 0, !.writer = t]
    /\ Goto(t, "c_check", call[t])
    /\ UNCHANGED <<options, sinkKind, logger, closed, lmu, file, sinkData, calls, fails>>

\* cf.mu.Lock, second half: it waits for the readers to leave
LockAcquire(t) ==
    /\ pc[t] = "c_wait"
    /\ mu.readers = {}
    /\ mu' = [mu EXCEPT !.pending = 0, !.writer = t]
    /\ Goto(t, "c_check", call[t])
    /\ UNCHANGED <<options, sinkKind, logger, closed, lmu, file, sinkData, calls, fails>>

\* the sanity check of Close
CloseCheck(t) ==
    /\ pc[t] = "c_check"
    /\ LET e == Critical(options, <<"cannot close the file; already closed">>)
           c == call[t]
       IN  IF closed
           THEN Goto(t, IF e.panic # "" THEN "c_unlock" ELSE "c_sync",
                     [c EXCEPT !.events = Append(@, "Close after Close"), !.stack = @ \/ e.stack,
                               !.stderr = @ \o e.stderr, !.panic = e.panic])
           ELSE Goto(t, "c_sync", c)
    /\ UNCHANGED <<options, sinkKind, logger, closed, mu, lmu, file, sinkData, calls, fails>>

\* Close marking the writer closed before it flushes
FileSyncMarksClosed(t) ==
    /\ pc[t] = "c_sync"
    /\ closed' = TRUE
    /\ IF file # "open"
       THEN /\ Goto(t, "c_unlock", [call[t] EXCEPT !.events = Append(@, "File.Sync"),
                                                    !.err = "file already closed"])
            /\ UNCHANGED fails
       ELSE \E ok \in IOOutcomes :
            /\ CountFail(ok)
            /\ IF ok
               THEN Goto(t, "c_close", [call[t] EXCEPT !.events = Append(@, "File.Sync")])
               ELSE Goto(t, "c_unlock", [call[t] EXCEPT !.events = Append(@, "File.Sync"),
                                                       !.err = "sync error",
                                                       !.ioerr = @ \cup {"File.Sync"}])
    /\ UNCHANGED <<options, sinkKind, logger, mu, lmu, file, sinkData, calls>>

\* Close clearing the closed flag when the flush fails
FileSyncClearsClosed(t) ==
    /\ pc[t] = "c_sync"
    /\ IF file # "open"
       THEN /\ closed' = FALSE
            /\ Goto(t, "c_unlock", [call[t] EXCEPT !.events = Append(@, "File.Sync"),
                                                    !.err = "file already closed"])
            /\ UNCHANGED fails
       ELSE \E ok \in IOOutcomes :
            /\ CountFail(ok)
            /\ closed' = IF ok THEN closed ELSE FALSE
            /\ IF ok
               THEN Goto(t, "c_close", [call[t] EXCEPT !.events = Append(@, "File.Sync")])
               ELSE Goto(t, "c_unlock", [call[t] EXCEPT !.events = Append(@, "File.Sync"),
                                                       !.err = "sync error",
                                                       !.ioerr = @ \cup {"File.Sync"}])
    /\ UNCHANGED <<options, sinkKind, logger, mu, lmu, file, sinkData, calls>>

\* cf.File.Sync; Close returns its error
FileSync(t) ==
    /\ pc[t] = "c_sync"
    /\ IF file # "open"
       THEN /\ Goto(t, "c_unlock", [call[t] EXCEPT !.events = Append(@, "File.Sync"),
                                                    !.err = "file already closed"])
            /\ UNCHANGED fails
       ELSE \E ok \in IOOutcomes :
            /\ CountFail(ok)
            /\ IF ok
               THEN Goto(t, "c_close", [call[t] EXCEPT !.events = Append(@, "File.Sync")])
               ELSE Goto(t, "c_unlock", [call[t] EXCEPT !.events = Append(@, "File.Sync"),
                                                       !.err = "sync error",
                                                       !.ioerr = @ \cup {"File.Sync"}])
    /\ UNCHANGED <<options, sinkKind, logger, closed, mu, lmu, file, sinkData, calls>>

\* Close setting the flag and leaving the file open
FileCloseKeepsFileOpen(t) ==
    /\ pc[t] = "c_close"
    /\ closed' = TRUE
    /\ file' = file
    /\ \E ok \in IOOutcomes :
            /\ CountFail(ok)
            /\ Goto(t, "c_unlock",
                    [call[t] EXCEPT !.events = Append(@, "File.Close"),
                                    !.err = IF ok THEN "" ELSE "close error",
                                    !.ioerr = IF ok THEN @ ELSE @ \cup {"File.Close"}])
    /\ UNCHANGED <<options, sinkKind, logger, mu, lmu, sinkData, calls>>

\* cf.closed = true; return cf.File.Close()
FileClose(t) ==
    /\ pc[t] = "c_close"
    /\ closed' = TRUE
    /\ file' = "closed"
    /\ IF file # "open"
       THEN /\ Goto(t, "c_unlock", [call[t] EXCEPT !.events = Append(@, "File.Close"),
                                                    !.err = "file already closed"])
            /\ UNCHANGED fails
       ELSE \E ok \in IOOutcomes :
            /\ CountFail(ok)
            /\ Goto(t, "c_unlock",
                    [call[t] EXCEPT !.events = Append(@, "File.Close"),
                                    !.err = IF ok THEN "" ELSE "close error",
                                    !.ioerr = IF ok THEN @ ELSE @ \cup {"File.Close"}])
    /\ UNCHANGED <<options, sinkKind, logger, mu, lmu, sinkData, calls>>

\* Close returning with the lock still held
UnlockKeepsLock(t) ==
    /\ pc[t] = "c_unlock"
    /\ mu' = mu
    /\ Return(t, call[t])
    /\ UNCHANGED <<options, sinkKind, logger, closed, lmu, file, sinkData, calls, fails>>

\* the deferred cf.mu.Unlock, then Close returns (or its panic goes up)
Unlock(t) ==
    /\ pc[t] = "c_unlock"
    /\ mu' = [mu EXCEPT !.writer = 0]
    /\ Return(t, call[t])
    /\ UNCHANGED <<options, sinkKind, logger, closed, lmu, file, sinkData, calls, fails>>

(* ------------------------------- Logger -------------------------------- *)
\* log.Logger.Println, promoted through the embedded *log.Logger
Println(t) ==
    \E v \in ArgLists : StartOutput(t, "Println", Sprintln(v), v)

\* Debug writing its line whether or not debug is set
DebugAlways(t) ==
    \E v \in ArgLists : StartOutput(t, "Debug", Sprint(v), v)

\* Logger.Debug
Debug(t) ==
    \E v \in ArgLists :
        IF options.Debug
        THEN StartOutput(t, "Debug", Sprint(v), v)
        ELSE /\ CanCall(t) /\ t = Main
             /\ calls' = calls + 1
             /\ Return(t, NewCall(t, "Debug", "", v))
             /\ UNCHANGED <<options, sinkKind, logger, closed, mu, lmu, file, sinkData, fails>>

\* Logger.Debugf
Debugf(t) ==
    \E format \in Formats, v \in ArgLists :
        IF options.Debug
        THEN StartOutput(t, "Debugf", Sprintf(format, v), v)
        ELSE /\ CanCall(t) /\ t = Main
             /\ calls' = calls + 1
             /\ Return(t, NewCall(t, "Debugf", "", v))
             /\ UNCHANGED <<options, sinkKind, logger, closed, mu, lmu, file, sinkData, fails>>

\* Logger.Debugln
Debugln(t) ==
    \E v \in ArgLists :
        IF options.Debug
        THEN StartOutput(t, "Debugln", "[DEBUG] " \o Sprintln(v), v)
        ELSE /\ CanCall(t) /\ t = Main
             /\ calls' = calls + 1
             /\ Return(t, NewCall(t, "Debugln", "", v))
             /\ UNCHANGED <<options, sinkKind, logger, closed, mu, lmu, file, sinkData, fails>>

\* Logger.Errorf
Errorf(t) ==
    \E format \in Formats, v \in ArgLists :
        StartOutput(t, "Errorf", "[ERROR] " \o Sprintf(format, v), v)

\* Errorln under the debug test of the Debug methods
ErrorlnOnlyInDebug(t) ==
    \E v \in ArgLists :
        IF options.Debug
        THEN StartOutput(t, "Errorln", "[ERROR] " \o Sprintln(v), v)
        ELSE /\ CanCall(t) /\ t = Main
             /\ calls' = calls + 1
             /\ Return(t, NewCall(t, "Errorln", "", v))
             /\ UNCHANGED <<options, sinkKind, logger, closed, mu, lmu, file, sinkData, fails>>

\* Logger.Errorln
Errorln(t) ==
    \E v \in ArgLists : StartOutput(t, "Errorln", "[ERROR] " \o Sprintln(v), v)

\* Logger.Severe: the SEVERE line
Severe(t) ==
    \E v \in CriticalArgLists : StartOutput(t, "Severe", "SEVERE: " \o Sprintln(v), v)

\* Logger.Severe after the line: stack trace, standard error, panic
SevereEscalate(t) ==
    /\ pc[t] = "severe"
    /\ LET e == SevereEscalation(options, call[t].v) IN
        Return(t, [call[t] EXCEPT !.events = Append(@, "Severe"), !.stack = @ \/ e.stack,
                                  !.stderr = @ \o e.stderr, !.panic = e.panic])
    /\ UNCHANGED <<options, sinkKind, logger, closed, mu, lmu, file, sinkData, calls, fails>>

\* Logger.Critical escalating before it writes its line
LoggerCriticalEscalatesFirst(t) ==
    \E v \in CriticalArgLists :
        /\ CanCall(t) /\ t = Main
        /\ calls' = calls + 1
        /\ Goto(t, "critical", NewCall(t, "Critical", "CRITICAL: " \o Sprintln(v), v))
        /\ UNCHANGED <<options, sinkKind, logger, closed, mu, lmu, file, sinkData, fails>>

\* Logger.Critical: the CRITICAL line
LoggerCritical(t) ==
    \E v \in CriticalArgLists : StartOutput(t, "Critical", "CRITICAL: " \o Sprintln(v), v)

\* Logger.Critical after the line: l.staticOptions.Critical(v...)
CriticalEscalate(t) ==
    /\ pc[t] = "critical"
    /\ LET e == Critical(options, call[t].v) IN
        Return(t, [call[t] EXCEPT !.events = Append(@, "Critical"), !.stack = @ \/ e.stack,
                                  !.stderr = @ \o e.stderr, !.panic = e.panic])
    /\ UNCHANGED <<options, sinkKind, logger, closed, mu, lmu, file, sinkData, calls, fails>>

\* Logger.Close: the SHUTDOWN line
Close(t) ==
    StartOutput(t, "Close", "SHUTDOWN: Logging has terminated.", <<>>)

\* Logger.Close returning the error of the SHUTDOWN line before it closes
CloseSinkReturnsWriteError(t) ==
    /\ pc[t] = "close_sink"
    /\ IF sinkKind = "file" /\ call[t].outerr = ""
       THEN Goto(t, "c_lock", call[t])
       ELSE Return(t, [call[t] EXCEPT !.err = call[t].outerr])
    /\ UNCHANGED <<options, sinkKind, logger, closed, mu, lmu, file, sinkData, calls, fails>>

\* Logger.Close after the line: close the sink if it is an io.Closer
CloseSink(t) ==
    /\ pc[t] = "close_sink"
    /\ IF sinkKind = "file"
       THEN Goto(t, "c_lock", call[t])
       ELSE Return(t, [call[t] EXCEPT !.err = call[t].outerr])
    /\ UNCHANGED <<options, sinkKind, logger, closed, mu, lmu, file, sinkData, calls, fails>>

(* ============================== claims ================================= *)
Range(f) == {f[i] : i \in DOMAIN f}

\* the bytes of the sink, and its newline-delimited segments as the tests
\* read them
RECURSIVE Concat(_)
Concat(chunks) ==
    IF chunks = <<>> THEN "" ELSE Head(chunks) \o Concat(Tail(chunks))

FileLines == Split(Concat(sinkData))

Constructors == {"NewFileLogger", "NewLogger"}

ValidRelease == options.Release \in {Release, Dev, Testing}

\* the word the diagnostics use for each valid release mode
ReleaseWord == (Release :> "release") @@ (Dev :> "dev") @@ (Testing :> "testing")

\* operands separated by single spaces
RECURSIVE JoinSpace(_)
JoinSpace(v) ==
    IF v = <<>> THEN ""
    ELSE IF Len(v) = 1 THEN v[1] ELSE v[1] \o " " \o JoinSpace(Tail(v))

\* 'Critical error: <build-info> <message>\nPlease submit a bug report here: <url>\n'
CriticalText(message) ==
    "Critical error: (" \o options.BinaryName \o " v" \o options.Version
        \o ", Release: " \o ReleaseWord[options.Release] \o ") " \o message
        \o "\nPlease submit a bug report here: " \o options.BugReportURL \o "\n"

\* the events of a call that record a failed sanity check of closeableFile
Misuse == {"Write after Close", "Close after Close"}

Misused(c) == Range(c.events) \cap Misuse # {}

\* the message closeableFile gives Options.Critical at each sanity check
MisuseMessage ==
    ("Write after Close" :> "cannot write to the file after it has been closed")
        @@ ("Close after Close" :> "cannot close the file; already closed")

\* C1: a call of Critical panics if and only if debug is set, and the value
\* of the panic is the formatted message; with binary "test", version
\* "0.0.1", release Testing and message "a critical message" the value
\* contains "Critical error: (test v0.0.1, Release: testing) a critical
\* message", and without debug the same call returns.
C1_CriticalAbortsIffDebug ==
    \A t \in Threads :
        LET c == call[t]
            e == c.events
        IN
        /\ (c.done /\ c.op = "Critical") =>
            /\ (c.panic # "") <=> options.Debug
            /\ (options.Debug /\ "Critical" \in Range(e)) =>
                   c.panic = CriticalText(JoinSpace(c.v))
            /\ ( /\ options.Debug /\ "Critical" \in Range(e)
                 /\ options.BinaryName = "test" /\ options.Version = "0.0.1"
                 /\ options.Release = Testing /\ c.v = <<"a critical message">> ) =>
                   Contains(c.panic,
                       "Critical error: (test v0.0.1, Release: testing) a critical message")
        /\ Misused(c) =>
            /\ (c.panic # "") <=> options.Debug
            /\ options.Debug => c.panic = CriticalText(MisuseMessage[e[Len(e)]])

C1_Witness ==
    \E t \in Threads :
        /\ call[t].done /\ call[t].op = "Critical" /\ options.Release = Testing
        /\ "Critical" \in Range(call[t].events)
        /\ Contains(call[t].panic, "(test v0.0.1, Release: testing) a critical message")

\* C2: on a closed closeableFile a second Close or a Write panics when
\* debug is set; without debug it does not panic and goes on to the file
\* operation (File.Sync for Close, File.Write for Write) after the Critical
\* escalation.
C2_MisuseAfterClose ==
    \A t \in Threads :
        LET c == call[t]
            e == c.events
        IN
        /\ (pc[t] = "w_file" /\ closed) =>
               ~options.Debug /\ e # <<>> /\ e[Len(e)] = "Write after Close" /\ c.panic = ""
        /\ (pc[t] = "c_sync" /\ closed) =>
               ~options.Debug /\ e # <<>> /\ e[Len(e)] = "Close after Close" /\ c.panic = ""
        /\ (Misused(c) /\ options.Debug) =>
               c.panic # "" /\ e[Len(e)] \in Misuse /\ pc[t] \in {"w_unlock", "c_unlock", "out_unlock", "idle"}
        /\ (Misused(c) /\ ~options.Debug) =>
               /\ c.panic = ""
               /\ \A i \in DOMAIN e :
                    /\ (e[i] = "Write after Close") =>
                           IF i < Len(e) THEN e[i + 1] = "File.Write" ELSE pc[t] = "w_file"
                    /\ (e[i] = "Close after Close") =>
                           IF i < Len(e) THEN e[i + 1] = "File.Sync" ELSE pc[t] = "c_sync"

C2_Witness ==
    \E t \in Threads :
        /\ call[t].done /\ ~options.Debug /\ call[t].op = "Close" /\ closed
        /\ call[t].events = <<"Write after Close", "File.Write", "Close after Close", "File.Sync">>

\* C3: NewLogger with the uninitialized release type always panics with
\* "uninitialized release type", whatever debug is, and nothing has been
\* written to the sink.
C3_UninitializedReleasePanics ==
    options.Release = ReleaseTypeError =>
        /\ sinkData = <<>>
        /\ logger \in {"none", "panic", "err"}
        /\ \A t \in Threads :
            (call[t].done /\ call[t].op \in Constructors /\ call[t].ioerr = {}) =>
                /\ logger = "panic"
                /\ Contains(call[t].panic, "uninitialized release type")
                /\ call[t].err = "" /\ call[t].events = <<>>

C3_Witness ==
    /\ options.Release = ReleaseTypeError /\ ~options.Debug
    /\ logger = "panic" /\ call[Main].done

\* C4: NewLogger with a release type that is none of ReleaseTypeError,
\* Release, Dev, Testing returns an error and no Logger, and does not panic.
C4_UnknownReleaseReturnsError ==
    \A t \in Threads :
        ( /\ options.Release \notin {ReleaseTypeError, Release, Dev, Testing}
          /\ call[t].done /\ call[t].op \in Constructors /\ call[t].ioerr = {} ) =>
            /\ logger = "err"
            /\ call[t].err # ""
            /\ call[t].panic = ""

\* C5: without debug, no call on a constructed logger ever panics.
C5_NoPanicWithoutDebug ==
    (~options.Debug /\ logger = "ok") => \A t \in Threads : call[t].panic = ""

C5_Witness ==
    /\ ~options.Debug /\ logger = "ok"
    /\ \E t \in Threads : call[t].done /\ Misused(call[t])
    /\ \E t \in Threads : call[t].done /\ call[t].op \in {"Severe", "Critical"}

\* C6: for each valid release mode and either value of debug, constructing
\* a Logger on a sink that accepts the write succeeds, and when it returns
\* exactly one line, which contains "STARTUP", has been written to the sink.
C6_ConstructionWritesStartup ==
    \A t \in Threads :
        (ValidRelease /\ call[t].op \in Constructors /\ call[t].done /\ call[t].ioerr = {}) =>
            /\ logger = "ok"
            /\ call[t].err = "" /\ call[t].panic = ""
            /\ calls = 0 =>
                /\ Len(sinkData) = 1
                /\ Len(FileLines) = 2
                /\ Contains(FileLines[1], "STARTUP")
                /\ FileLines[2] = ""

C6_Witness ==
    /\ logger = "ok" /\ calls = 0 /\ call[Main].done
    /\ options.Release = Dev /\ options.Debug
    /\ Len(FileLines) = 2 /\ Contains(FileLines[1], "STARTUP")

\* C7: NewFileLogger, one line written, then Logger.Close, with no I/O
\* failure, leave the file holding the STARTUP line, the written line and
\* the SHUTDOWN line, in this order (four newline-delimited segments, the
\* last one empty); Close returns nil and the file is closed.
C7_Lifecycle ==
    ( /\ sinkKind = "file" /\ fails = 0 /\ calls = 2
      /\ \A u \in Threads \ {Main} : call[u].op = "none"
      /\ call[Main].op = "Close" /\ call[Main].done
      /\ call[Main].prev \in {"Println", "Errorf", "Errorln"} ) =>
        /\ Len(FileLines) = 4
        /\ Contains(FileLines[1], "STARTUP")
        /\ Contains(FileLines[2], "message")
        /\ Contains(FileLines[3], "SHUTDOWN")
        /\ FileLines[4] = ""
        /\ call[Main].err = "" /\ call[Main].panic = ""
        /\ file = "closed" /\ closed

C7_Witness ==
    /\ sinkKind = "file" /\ fails = 0 /\ calls = 2
    /\ call[Main].op = "Close" /\ call[Main].done /\ call[Main].prev = "Println"
    /\ \A u \in Threads \ {Main} : call[u].op = "none"
    /\ Len(FileLines) = 4 /\ file = "closed"

\* C8: once closeableFile.closed is true it never becomes false again,
\* whatever Write and Close calls follow.
C8_ClosedMonotonic == [][closed => closed']_vars

C8_Witness ==
    /\ closed
    /\ \E t \in Threads :
        /\ call[t].done /\ call[t].op = "cf.Close"
        /\ call[t].events = <<"Close after Close", "File.Sync">>

InWrite(t) == pc[t] \in {"w_check", "w_file", "w_unlock"}

InClose(t) == pc[t] \in {"c_check", "c_sync", "c_close", "c_unlock"}

\* C9: a Close is never inside its locked section while a Write is inside
\* its own: a Close holding the lock keeps every RLock waiting and a Write
\* holding it keeps the Lock waiting; several Writes may be inside together.
C9_CloseExcludesWrite ==
    /\ \A c \in Threads, w \in Threads : ~(InClose(c) /\ InWrite(w))
    /\ (\E c \in Threads : InClose(c)) => \A t \in Threads : ~ENABLED RLock(t)
    /\ (\E w \in Threads : InWrite(w)) => \A t \in Threads : ~ENABLED LockAcquire(t)

C9_Witness ==
    \E w1 \in Threads, w2 \in Threads :
        /\ w1 # w2 /\ InWrite(w1) /\ InWrite(w2)
        /\ mu.readers = {w1, w2}

\* C10 as stated: every I/O failure on a writer that is not closed is
\* returned to the caller of the operation as an error, and causes no panic.
C10_IOErrorsReturned ==
    \A t \in Threads :
        LET c == call[t] IN
        (c.done /\ c.ioerr # {} /\ ~Misused(c) /\ c.op \notin {"Critical", "Severe", "Println"}) =>
            c.err # "" /\ c.panic = ""

\* C10 amended: an I/O failure never causes a panic; closeableFile.Write
\* and Close, NewFileLogger and NewLogger return it (a failed STARTUP write
\* gives no Logger), and Logger.Close returns the error of closing the sink,
\* or the error of the SHUTDOWN write when the sink is no io.Closer; the
\* logging calls return nothing, and Logger.Close on a closeable sink drops
\* the error of the SHUTDOWN write.
C10_IOErrorsNeverPanic ==
    \A t \in Threads :
        LET c == call[t]
            e == c.events
        IN
        (c.done /\ c.ioerr # {}) =>
            /\ c.panic # "" => (Misused(c) \/ c.op \in {"Critical", "Severe"})
            /\ (c.op \in {"Write", "cf.Close"} /\ c.panic = "") => c.err # ""
            /\ c.op \in Constructors => (c.err # "" /\ c.panic = "" /\ logger = "err")
            /\ (c.op = "Close" /\ sinkKind = "writer") => c.err # ""
            /\ (c.op = "Close" /\ sinkKind = "file" /\ c.panic = "" /\ ~Misused(c)) =>
                   (c.err # "" <=> c.ioerr \cap {"File.Sync", "File.Close"} # {})
            /\ c.op \in {"Println", "Debug", "Debugf", "Debugln", "Errorf", "Errorln",
                         "Severe", "Critical"} => c.err = ""

C10_Witness ==
    /\ logger = "err"
    /\ call[Main].done /\ call[Main].ioerr # {}
    /\ call[Main].events # <<>> /\ call[Main].err = "write error"
    /\ options.Debug

\* the position of the first occurrence of an event in a call, 0 if none
Position(e, name) ==
    IF name \in Range(e)
    THEN CHOOSE i \in DOMAIN e : e[i] = name /\ \A j \in 1..(i - 1) : e[j] # name
    ELSE 0

\* what closeableFile.Close returned, read from the file operations it made
CloseResult(c) ==
    LET e == c.events IN
    IF e[Len(e)] = "File.Close"
    THEN IF "File.Close" \in c.ioerr THEN "close error" ELSE ""
    ELSE IF "File.Sync" \in c.ioerr THEN "sync error" ELSE "file already closed"

\* C11: Logger.Close writes the SHUTDOWN line before it closes the sink;
\* with a sink that can be closed it returns the result of closing it, and
\* otherwise the error of the SHUTDOWN write.
C11_CloseWritesThenCloses ==
    \A t \in Threads :
        LET c == call[t]
            e == c.events
        IN
        c.op = "Close" =>
            /\ c.s = "SHUTDOWN: Logging has terminated."
            /\ \A name \in {"File.Sync", "File.Close", "Close after Close"} :
                   name \in Range(e) =>
                       /\ Position(e, "File.Write") > 0
                       /\ Position(e, "File.Write") < Position(e, name)
            /\ (InClose(t) /\ c.outerr = "") =>
                   \E i \in DOMAIN sinkData : Contains(sinkData[i], "SHUTDOWN")
            /\ (c.done /\ sinkKind = "writer") =>
                   /\ c.err = c.outerr
                   /\ e = <<"Write">>
            /\ (c.done /\ sinkKind = "file" /\ c.panic = "") =>
                   /\ e[Len(e)] \in {"File.Sync", "File.Close"}
                   /\ c.err = CloseResult(c)

C11_Witness ==
    /\ sinkKind = "file"
    /\ call[Main].op = "Close" /\ call[Main].done
    /\ call[Main].outerr = "write error" /\ call[Main].err = ""
    /\ call[Main].events = <<"File.Write", "File.Sync", "File.Close">>

\* strings.HasPrefix
HasPrefix(s, prefix) ==
    Len(s) >= Len(prefix) /\ SubSeq(s, 1, Len(prefix)) = prefix

\* the text a written line carries after the header of log.Logger
MessageOf(bytes) == SubSeq(bytes, Len(Header) + 1, Len(bytes))

\* the call reached its sink Write with the sink open, and the Write succeeded
Wrote(c) ==
    /\ c.events # <<>> /\ c.events[1] \in {"File.Write", "Write"}
    /\ c.ioerr \cap {"File.Write", "Write"} = {}

\* 'Severe error: <build-info> <message>\n'
SevereText(message) ==
    "Severe error: (" \o options.BinaryName \o " v" \o options.Version
        \o ", Release: " \o ReleaseWord[options.Release] \o ") " \o message \o "\n"

DebugOps == {"Debug", "Debugf", "Debugln"}

\* C13: without debug, Debug, Debugf and Debugln do nothing: no line reaches
\* the sink and nothing else changes; with debug each call writes exactly
\* one line to the sink (a sink that is open and takes the write).
C13_DebugOnlyInDebug ==
    /\ [](\A t \in Threads :
            LET c == call[t] IN
            c.op \in DebugOps =>
                /\ ~options.Debug =>
                       /\ c.done /\ pc[t] = "idle"
                       /\ c.events = <<>> /\ c.panic = "" /\ c.stderr = "" /\ ~c.stack
                /\ (options.Debug /\ c.done /\ ~Misused(c)) =>
                       c.events \in {<<"File.Write">>, <<"Write">>})
    /\ [][\A t \in Threads :
            /\ (call'[t].op \in DebugOps /\ call'[t] # call[t] /\ ~options.Debug) =>
                   UNCHANGED <<options, sinkKind, logger, closed, mu, lmu, file, sinkData, fails>>
            /\ ( /\ call[t].op \in DebugOps /\ options.Debug
                 /\ call'[t].events # call[t].events /\ Wrote(call'[t]) ) =>
                   /\ Len(sinkData') = Len(sinkData) + 1
                   /\ SubSeq(sinkData', 1, Len(sinkData)) = sinkData
                   /\ Len(Split(sinkData'[Len(sinkData')])) = 2
                   /\ Split(sinkData'[Len(sinkData')])[2] = ""
         ]_vars

C13_Witness ==
    /\ ~options.Debug
    /\ call[Main].op = "Debugf" /\ call[Main].prev = "Debug" /\ call[Main].done
    /\ Len(sinkData) = 1

\* C14: with debug set, each of Debug, Debugf and Debugln writes a line
\* whose message starts with "[DEBUG]".
C14_DebugPrefix ==
    \A t \in Threads :
        (call[t].op \in DebugOps /\ options.Debug /\ call[t].done /\ Wrote(call[t])) =>
            /\ HasPrefix(call[t].s, "[DEBUG]")
            /\ \E i \in DOMAIN sinkData : HasPrefix(MessageOf(sinkData[i]), "[DEBUG]")

\* C15: Errorf and Errorln write one line prefixed "[ERROR]" on every call,
\* whatever debug and the release mode are (on a sink that is open and
\* takes the write); Errorf("%v - %v", "test", "message") gives a line
\* ending in "[ERROR] test - message" and Errorln("test", "message") one
\* ending in "[ERROR] test message".
C15_ErrorLines ==
    \A t \in Threads :
        LET c == call[t]
            e == c.events
            written == {i \in DOMAIN sinkData : HasPrefix(MessageOf(sinkData[i]), "[ERROR] ")}
        IN
        (c.op \in {"Errorf", "Errorln"} /\ c.done) =>
            /\ c.panic = "" => Cardinality({i \in DOMAIN e : e[i] \in {"File.Write", "Write"}}) = 1
            /\ Wrote(c) =>
                /\ written # {}
                /\ \A i \in written :
                       /\ Len(Split(sinkData[i])) = 2 /\ Split(sinkData[i])[2] = ""
                /\ (c.op = "Errorf" /\ c.v = <<"test", "message">>) =>
                       \E i \in written :
                           HasSuffix(Split(sinkData[i])[1], "[ERROR] test - message")
                /\ (c.op = "Errorln" /\ c.v = <<"test", "message">>) =>
                       \E i \in written :
                           HasSuffix(Split(sinkData[i])[1], "[ERROR] test message")

C15_Witness ==
    /\ ~options.Debug /\ options.Release = Release
    /\ call[Main].op = "Errorln" /\ call[Main].prev = "Errorf" /\ call[Main].done
    /\ Len(sinkData) = 3
    /\ HasSuffix(Split(sinkData[2])[1], "[ERROR] test - message")
    /\ HasSuffix(Split(sinkData[3])[1], "[ERROR] test message")

\* C16: however Writes and a Close on one closeableFile interleave, a Write
\* gets to the write of the underlying file with the file closed only after
\* it has called Critical; with debug set no write of a closed file is
\* attempted at all.
C16_NoWriteOnClosedFileUnnoticed ==
    \A t \in Threads :
        LET e == call[t].events IN
        /\ (pc[t] = "w_file" /\ file = "closed") =>
               /\ ~options.Debug
               /\ e # <<>> /\ e[Len(e)] = "Write after Close"
        /\ ("File.Write" \in Range(e) /\ call[t].outerr = "file already closed") =>
               /\ ~options.Debug
               /\ Position(e, "Write after Close") > 0
               /\ Position(e, "File.Write") = Position(e, "Write after Close") + 1
        /\ (pc[t] = "w_file" /\ (e = <<>> \/ e[Len(e)] # "Write after Close")) =>
               file = "open" /\ ~closed

C16_Witness ==
    \E t, u \in Threads :
        /\ t # u
        /\ call[t].op = "Write" /\ pc[t] = "w_file" /\ file = "closed"
        /\ call[t].events = <<"Write after Close">>
        /\ call[u].op \in {"cf.Close", "Close"} /\ call[u].done /\ call[u].err = ""

CloseOps == {"cf.Close", "Close"}

\* C17: when the Sync in Close fails on a writer that is not closed, Close
\* returns that error, does not attempt the file close and leaves closed
\* false; closed becomes true only after a successful flush; so a later
\* Close or Write is not treated as a misuse.
C17_FailedFlushLeavesOpen ==
    /\ [](\A t \in Threads :
            LET c == call[t] IN
            /\ (c.op \in CloseOps /\ "File.Sync" \in c.ioerr) =>
                   /\ "File.Close" \notin Range(c.events)
                   /\ c.err = "sync error"
                   /\ c.panic = ""
            /\ Misused(c) => closed)
    /\ [][ /\ \A t \in Threads :
               (pc[t] = "c_sync" /\ "File.Sync" \in call'[t].ioerr) =>
                   /\ ~closed /\ ~closed' /\ file' = "open"
                   /\ pc'[t] = "c_unlock"
           /\ (~closed /\ closed') =>
                  \E t \in Threads :
                      /\ pc[t] = "c_close"
                      /\ call[t].events[Len(call[t].events)] = "File.Sync"
                      /\ "File.Sync" \notin call[t].ioerr
         ]_vars

C17_Witness ==
    /\ sinkKind = "file" /\ ~closed /\ file = "open" /\ calls = 2 /\ fails = 1
    /\ \A u \in Threads \ {Main} : call[u].op = "none"
    /\ call[Main].prev = "cf.Close"
    /\ call[Main].op = "Write" /\ call[Main].done
    /\ call[Main].events = <<"File.Write">> /\ call[Main].err = ""

\* the lines of the file: each Write that landed put one newline-terminated
\* line there
Landed == sinkData

StartupLines == {i \in DOMAIN Landed : HasPrefix(MessageOf(Landed[i]), "STARTUP:")}

ShutdownLines == {i \in DOMAIN Landed : HasPrefix(MessageOf(Landed[i]), "SHUTDOWN:")}

\* the lines written through the Logger, not by a Write made on the sink
LoggerLines == {i \in DOMAIN Landed : Landed[i] # "raw bytes\n"}

C19_LineBeforeEscalation ==
    \A t \in Threads :
        LET c == call[t]
            e == c.events
            word == IF c.op = "Critical" THEN "CRITICAL: " ELSE "SEVERE: "
        IN
        (c.op \in {"Critical", "Severe"} /\ Range(e) \cap {"Critical", "Severe"} # {}) =>
            /\ Len(e) >= 2
            /\ e[Len(e)] = c.op
            /\ e[Len(e) - 1] \in {"File.Write", "Write"}
            /\ (c.panic # "" /\ Wrote(c)) =>
                   \E i \in DOMAIN sinkData :
                       sinkData[i] = Header \o word \o JoinSpace(c.v) \o "\n"

C19_Witness ==
    /\ options.Debug /\ sinkKind = "file"
    /\ call[Main].op = "Critical" /\ call[Main].done
    /\ call[Main].events = <<"File.Write", "Critical">>
    /\ HasPrefix(call[Main].panic, "Critical error:")
    /\ Len(Landed) = 2 /\ HasPrefix(MessageOf(Landed[2]), "CRITICAL: a critical message")

Next ==
    \E t \in Threads :
        \/ NewFileLogger(t)
        \/ NewLogger(t)
        \/ NewLoggerReturn(t)
        \/ OutputLock(t)
        \/ PlainWrite(t)
        \/ OutputUnlock(t)
        \/ Write(t)
        \/ RLock(t)
        \/ WriteCheck(t)
        \/ FileWrite(t)
        \/ RUnlock(t)
        \/ FileCloserClose(t)
        \/ Lock(t)
        \/ LockAcquire(t)
        \/ CloseCheck(t)
        \/ FileSync(t)
        \/ FileClose(t)
        \/ Unlock(t)
        \/ Println(t)
        \/ Debug(t)
        \/ Debugf(t)
        \/ Debugln(t)
        \/ Errorf(t)
        \/ Errorln(t)
        \/ Severe(t)
        \/ SevereEscalate(t)
        \/ LoggerCritical(t)
        \/ CriticalEscalate(t)
        \/ Close(t)
        \/ CloseSink(t)

Spec == Init /\ [][Next]_vars

\* the steps inside a call that goroutine t has started: the scheduler runs
\* a goroutine that can take its next step
Step(t) ==
    \/ pc[t] = "new_logger" /\ NewLogger(t)
    \/ NewLoggerReturn(t)
    \/ OutputLock(t)
    \/ PlainWrite(t)
    \/ OutputUnlock(t)
    \/ RLock(t)
    \/ WriteCheck(t)
    \/ FileWrite(t)
    \/ RUnlock(t)
    \/ Lock(t)
    \/ LockAcquire(t)
    \/ CloseCheck(t)
    \/ FileSync(t)
    \/ FileClose(t)
    \/ Unlock(t)
    \/ SevereEscalate(t)
    \/ CriticalEscalate(t)
    \/ CloseSink(t)

\* the program under a fair scheduler
FairSpec == Spec /\ \A t \in Threads : WF_vars(Step(t))

LockFree == mu = [readers |-> {}, pending |-> 0, writer |-> 0]

\* C20: under fair scheduling every call that has started, Write and Close
\* among them, runs to completion; there is no deadlock; the lock is
\* released on every way out of a call, a panic through Critical included,
\* so that calls made after a recovered panic are not blocked.
C20_CallsComplete ==
    /\ \A t \in Threads : (pc[t] # "idle") ~> (pc[t] = "idle")
    /\ []((\E t \in Threads : pc[t] # "idle") => \E t \in Threads : ENABLED Step(t))
    /\ [](\A t \in Threads :
            pc[t] = "idle" => t \notin mu.readers /\ mu.writer # t /\ mu.pending # t /\ lmu # t)
    /\ []((\A t \in Threads : pc[t] = "idle") => LockFree /\ lmu = 0)

C20_Witness ==
    /\ options.Debug /\ LockFree /\ lmu = 0
    /\ \A t \in Threads : pc[t] = "idle"
    /\ \E t, u \in Threads :
        /\ call[t].op = "cf.Close" /\ call[t].done /\ call[t].panic = ""
        /\ call[u].op = "Write" /\ call[u].done
        /\ call[u].events = <<"Write after Close">>
        /\ HasPrefix(call[u].panic, "Critical error:")
====
